---- MODULE Spec2Model ----
(***************************************************************************)
(* Model of the asynchronous generation pipeline and the queue state       *)
(* machine of src/gui.py (class MyWindow).                                 *)
(*                                                                         *)
(* The controller (Tk main loop) runs button callbacks and the callbacks   *)
(* posted with root.after(0, ...); each worker thread runs                 *)
(* generate_writing.  A worker step is one unit of work (Hand init,        *)
(* prepare, one line synthesized, one line rasterized, one line pasted)    *)
(* together with the poll of self._cancel that follows it in the code, if  *)
(* one follows, so the state "pc = synth, i = k" is "line k is in flight". *)
(*                                                                         *)
(* A text is a sequence of characters over a small alphabet: two letters,  *)
(* the letter Q that is lowered, a character that is not valid, the        *)
(* hyphen, the space and the newline.  A temporary directory is named by   *)
(* the run that created it (the random fileid).  Hand.write is taken to    *)
(* leave no svg behind when it raises; svg2png leaves no png when it       *)
(* raises.  The label of a generation dialog is named like its dialog.     *)
(* Positions that the code computes with width / 2, and the values of the  *)
(* scales, are kept in halves.                                             *)
(*                                                                         *)
(* Spec is the whole window with one-line texts; SpecRun is the window     *)
(* used for single Generate runs only, with longer and with invalid texts  *)
(* and with the settings changed while a run is in progress; in both every *)
(* line is shorter than the maximal line width.  The texts posted for the  *)
(* dialog label change nothing but the label; they are followed in SpecRun *)
(* and left out of the callback queue in Spec.  SpecCompose is the compose *)
(* loop of generate_writing over line images of a few sizes, with the      *)
(* layout settings changed before and between the lines; SpecWrap is the   *)
(* splitting of the text into lines, with the lines longer than the        *)
(* maximal line width wrapped as textwrap.wrap wraps them.                 *)
(*                                                                         *)
(* SpecBlank is the window used for single runs of texts with empty lines. *)
(* SpecEncode is the window as it is after load_prefs has read a           *)
(* preferences file, with or without reportlab, used for single runs with  *)
(* the background and the export format changed.  SpecProgress follows the *)
(* progress bars of the dialogs: the steps posted with step_bar_after are  *)
(* put in the callback queue there and left out elsewhere, and the values  *)
(* of a bar are kept in units of 1/3000.  SpecPreview is the window with   *)
(* the timer of the live preview, which synthesizes its sample on the      *)
(* controller thread.                                                      *)
(***************************************************************************)
EXTENDS Naturals, Integers, Sequences, FiniteSets

\* ---------------------------------------------------------------- bounds
MaxClicks == 4      \* clicks (buttons, Cancel, settings) over a behaviour
MaxLines == 1       \* lines of a text in Spec
MaxFaults == 1      \* calls of hand.write, svg2png or save that raise, over a behaviour
MaxRunLines == 2    \* lines of a text in SpecRun
MaxWrapTokens == 5  \* pieces (words, spaces, hyphens) of a line in SpecWrap

\* a Generate click starts one run, a Process-Queue click one run for every
\* item an Add click enqueued: with c clicks at most (c/2)*(c/2) + 1 runs
MaxRuns == (MaxClicks * MaxClicks) \div 4 + 1
Runs == 1..MaxRuns
NoDir == 0

VARIABLES
    text_queue,          \* self.text_queue: sequence of QueueItem
    processing_queue,    \* self.processing_queue
    current_queue_index, \* self.current_queue_index (0-based)
    _cancel,             \* self._cancel
    _errors,             \* self._errors
    text,                \* self.text
    tempdir,             \* self.tempdir (NoDir: attribute not set yet)
    generatedialog,      \* self.generatedialog and its label (0: not set yet)
    dialogs,             \* Toplevel dialogs that exist (winfo_exists)
    btn,                 \* state of the five buttons
    afterq,              \* callbacks posted with root.after(0, ...), FIFO
    run,                 \* the worker threads, by run id
    fs,                  \* the temporary directories on disk
    outputs,             \* runs whose output file exists in outputs/
    nextJob,             \* number of QueueItems created so far + 1
    nclicks,             \* clicks so far
    nstarts,             \* Process-Queue clicks that started the queue
    nfaults,             \* external calls that raised so far
    auto_remove_invalid, \* self.auto_remove_invalid (the checkbox)
    currentstyle,        \* self.currentstyle
    legibilityscale,     \* self.legibilityscale (the slider's value)
    export_format,       \* self.export_format
    shown,               \* by run: the last status of it a label has shown
    follow_labels,       \* the model follows the label texts (SpecRun only)
    preview_info,        \* self.preview_info
    previewed,           \* the previews shown so far: by whose callback, which file
    log_btn,             \* the dialogs whose "View log" button is packed
    logview,             \* the logs opened so far: from which dialog, with what text
    orientation,         \* self.orientation (Text Alignment)
    lineheightscale,     \* self.lineheightscale (Line Spacing)
    image_enabled,       \* self.image_enabled
    image_rect,          \* self.image_x, image_y, image_width, image_height
    image_wrap_style,    \* self.image_wrap_style
    linewidthscale,      \* self.linewidthscale (Max Line Width), in halves
    custom_width_var,    \* self.custom_width_var: <<n>> for the numeral of n, <<>> for other text
    compose,             \* the locals of the compose loop that is followed
    canvas,              \* the page canvas: its size
    pasted,              \* the lines pasted on the canvas so far
    background_type,     \* self.background_type
    background_color,    \* self.background_color
    background_image_path, \* self.background_image_path (<<>>: None)
    PDF_AVAILABLE,       \* reportlab could be imported
    progress,            \* by dialog: the value of its progress bar
    follow_progress,     \* the model follows the progress bars (SpecProgress only)
    _mini_prev_after     \* self._mini_prev_after: the preview timer it names is pending, or has fired

\* what the preview callback and the "View log" buttons work on
views == <<preview_info, previewed, log_btn, logview>>

\* the layout settings and the page that is composed
layout == <<orientation, lineheightscale, image_enabled, image_rect,
            image_wrap_style, linewidthscale, custom_width_var, compose, canvas,
            pasted>>

\* the background settings and the PDF capability
paper == <<background_type, background_color, background_image_path, PDF_AVAILABLE>>

\* the progress bars
bars == <<progress, follow_progress>>

\* the live settings of the controller
settings == <<auto_remove_invalid, currentstyle, legibilityscale, export_format>>

vars == <<text_queue, processing_queue, current_queue_index, _cancel, _errors,
          text, tempdir, generatedialog, dialogs, btn, afterq, run, fs,
          outputs, nextJob, nclicks, nstarts, nfaults, settings, shown,
          follow_labels, preview_info, previewed, log_btn, logview, layout,
          paper, bars, _mini_prev_after>>

Buttons == {"generatebutton", "add_to_queue_btn", "remove_from_queue_btn",
            "clear_queue_btn", "process_queue_btn"}

\* the values a setting is moved between
Styles == {0, 1}
Legibilities == {50, 100}
Formats == {"png", "jpg"}
ExportFormats == Formats \cup {"pdf"}
BackgroundTypes == {"transparent", "white", "color", "image"}
Colors == {"white", "red"}

\* class QueueItem: the text and an identity (stands for the name)
QueueItem(t, id) == [text |-> t, id |-> id]

EmptyDir == [exists |-> FALSE, svg |-> {}, png |-> {}]

\* a status text of the dialog label: its kind and the line it names
Status(phase, line) == [phase |-> phase, line |-> line]
NoStatus == Status("none", 0)

\* self.preview_info before any run has written it (hasattr is false)
NoPreview == [show_preview |-> FALSE, output_files |-> {}, final_output |-> <<>>]

\* what a thread has read of the live settings so far
NoUse == [bias |-> {}, styles |-> <<>>, format |-> {}, background |-> {}]

\* a thread that was never started
NoRun == [pc |-> "none", isq |-> FALSE, i |-> 0, n |-> 0, pos |-> 0, job |-> 0,
          len |-> 0, epoch |-> 0, log |-> <<>>, at |-> "none",
          txt |-> <<>>, lines |-> <<>>, snap |-> <<>>, use |-> NoUse,
          max_width |-> 0, final_output |-> <<>>]

Active == {"init", "prepare", "synth", "raster", "compose", "encode", "finish", "next"}
Ended == {"done", "cancelled", "crashed"}

NRuns == Cardinality({r \in Runs : run[r].pc # "none"})

\* ---------------------------------------------------------------- numbers
\* Horizontal positions and the values of the scales are not always whole
\* numbers (1_000 - width / 2, a scale at 42.5): they are counted in halves,
\* n standing for n/2.
halves(n) == n + n

\* round(v) of Python for v given in halves: a half goes to the even neighbour
round(v) ==
    IF v % 2 = 0 THEN v \div 2
    ELSE LET lo == (v - 1) \div 2 IN IF lo % 2 = 0 THEN lo ELSE lo + 1

\* int(x) of Python for x given in halves: towards zero
int(x) == IF x >= 0 THEN x \div 2 ELSE 0 - ((0 - x) \div 2)

\* --------------------------------------------------------------- progress
\* the values of a progress bar are kept in units of 1/3000, which makes
\* total/steps and 60/N, 20/N whole for up to six lines
Unit == 3000

\* ttk.Progressbar: the default maximum
Maximum == 100 * Unit

\* step_bar_after: the default of steps
steps == 50

\* Progressbar.step(amount) in the determinate mode: the value wraps around
\* at the maximum
step(value, amount) == (value + amount) % Maximum

\* step_bar_after(bar, total) on a bar of the value given: tick steps the bar
\* by total/steps, steps times
RECURSIVE tick(_, _, _)
tick(value, amount, done) ==
    IF done >= steps THEN value ELSE tick(step(value, amount), amount, done + 1)

step_bar_after(value, total) == tick(value, total \div steps, 0)

\* proglength = 60/len(synthesized_lines), 20/len(synthesized_lines)
proglength(total, n) == (total * Unit) \div n

\* the steps for Hand(), for the prepared lines, and the last one (4.9)
hand_step == 10 * Unit
prepare_step == 5 * Unit
last_step == 49 * (Unit \div 10)

\* _queue_mini_preview: the pending preview timer, if any, is cancelled and a
\* new one is set (root.after(250, self._render_mini_preview))
_queue_mini_preview == "pending"

\* ------------------------------------------------------------------ texts
\* self.valid_chars, as far as the alphabet of the model goes
valid_chars == {"a", "b", "q", "x", "-", " ", "\n"}

\* .replace('Q', 'q').replace('X', 'x')
replaceQX(t) ==
    [k \in 1..Len(t) |-> IF t[k] = "Q" THEN "q" ELSE IF t[k] = "X" THEN "x" ELSE t[k]]

\* inputtext.get("1.0", tk.END) for the content c of the text box: Tk adds a
\* newline at the end
inputtext_get(c) == c \o <<"\n">>

\* len("".join(text.split())) == 0
IsBlank(t) == \A k \in 1..Len(t) : t[k] \in {" ", "\n"}

\* the loop that keeps the letters in self.valid_chars
FilterValid(t) == SelectSeq(t, LAMBDA c : c \in valid_chars)

\* some letter is not in self.valid_chars
HasInvalid(t) == \E k \in 1..Len(t) : t[k] \notin valid_chars

\* str.splitlines(): the lines of t, without the newlines; a newline at the
\* very end opens no further line
RECURSIVE splitlines(_)
splitlines(t) ==
    IF t = <<>> THEN <<>>
    ELSE LET nl == {k \in 1..Len(t) : t[k] = "\n"} IN
         IF nl = {} THEN <<t>>
         ELSE LET k == CHOOSE x \in nl : \A y \in nl : x <= y IN
              <<SubSeq(t, 1, k - 1)>> \o splitlines(SubSeq(t, k + 1, Len(t)))

\* the lists of ls put one after the other
RECURSIVE Join(_)
Join(ls) == IF ls = <<>> THEN <<>> ELSE Head(ls) \o Join(Tail(ls))

\* textwrap.wrap(text, width) with its defaults (break_long_words,
\* break_on_hyphens, drop_whitespace), for a line of letters, spaces and
\* hyphens that has no two hyphens in a row.
\* position k of t holds a letter, or the character c
letter(t, k) == k \in 1..Len(t) /\ t[k] \notin {" ", "-"}
is(t, k, c) == k \in 1..Len(t) /\ t[k] = c

\* wordsep_re, "hyphenated word": the hyphen at k + 1 ends a chunk when two
\* letters stand before it (or letter, hyphen, letter) and two letters behind
\* it (or letter, hyphen, letter)
hyphenated(t, k) ==
    /\ is(t, k + 1, "-")
    /\ \/ letter(t, k - 1) /\ letter(t, k)
       \/ letter(t, k - 2) /\ is(t, k - 1, "-") /\ letter(t, k)
    /\ letter(t, k + 2)
    /\ \/ letter(t, k + 3)
       \/ is(t, k + 3, "-") /\ letter(t, k + 4)

\* wordsep_re: the end of the chunk that starts at p, a run of spaces or the
\* shortest piece of a word up to such a hyphen or to the end of the word
chunk_end(t, p) ==
    IF t[p] = " "
    THEN CHOOSE e \in p..Len(t) : (\A j \in p..e : t[j] = " ") /\ ~is(t, e + 1, " ")
    ELSE LET ends == {k \in p..Len(t) :
                         hyphenated(t, k) \/ k = Len(t) \/ is(t, k + 1, " ")}
             k == CHOOSE x \in ends : \A y \in ends : x <= y
         IN IF hyphenated(t, k) THEN k + 1 ELSE k

\* TextWrapper._split: the chunks of t from position p on
RECURSIVE _split(_, _)
_split(t, p) ==
    IF p > Len(t) THEN <<>>
    ELSE LET e == chunk_end(t, p) IN <<SubSeq(t, p, e)>> \o _split(t, e + 1)

\* a long word that is not broken: all of it is taken
_handle_long_word_whole(chunk, space_left) == Len(chunk)

\* TextWrapper._handle_long_word: how much of a chunk longer than the width is
\* put on the current line, which has space_left left: as much as fits, or up
\* to the last hyphen in that part if something other than hyphens is before it
_handle_long_word(chunk, space_left) ==
    LET hy == {j \in 1..space_left : chunk[j] = "-"} IN
    IF hy = {} THEN space_left
    ELSE LET h == CHOOSE x \in hy : \A y \in hy : x >= y IN
         IF h > 1 /\ \E j \in 1..(h - 1) : chunk[j] # "-" THEN h ELSE space_left

\* TextWrapper._wrap_chunks: the lines made of chunks, after the lines made so far
RECURSIVE _wrap_chunks(_, _, _)
_wrap_chunks(chunks, width, lines) ==
    IF chunks = <<>> THEN lines
    ELSE LET cs == IF IsBlank(chunks[1]) /\ lines # <<>> THEN Tail(chunks) ELSE chunks
             n == CHOOSE m \in 0..Len(cs) :
                     /\ Len(Join(SubSeq(cs, 1, m))) <= width
                     /\ m = Len(cs) \/ Len(Join(SubSeq(cs, 1, m + 1))) > width
             cur_len == Len(Join(SubSeq(cs, 1, n)))
             rest == SubSeq(cs, n + 1, Len(cs))
             long == rest # <<>> /\ Len(rest[1]) > width
             end == IF long THEN _handle_long_word(rest[1], width - cur_len) ELSE 0
             cur_line == SubSeq(cs, 1, n)
                         \o (IF long THEN <<SubSeq(rest[1], 1, end)>> ELSE <<>>)
             left == IF long
                     THEN <<SubSeq(rest[1], end + 1, Len(rest[1]))>> \o Tail(rest)
                     ELSE rest
             kept == IF cur_line # <<>> /\ IsBlank(cur_line[Len(cur_line)])
                     THEN SubSeq(cur_line, 1, Len(cur_line) - 1) ELSE cur_line
         IN _wrap_chunks(left, width,
                         IF kept # <<>> THEN Append(lines, Join(kept)) ELSE lines)

\* split_string: textwrap.wrap(text, length)
split_string(t, length) == _wrap_chunks(_split(t, 1), length, <<>>)

\* get_max_line_width: the larger of the rounded scale and the custom width,
\* the scale alone when the custom width is no number
get_max_line_width ==
    LET scale_value == round(linewidthscale) IN
    IF custom_width_var = <<>> THEN scale_value
    ELSE IF custom_width_var[1] > scale_value THEN custom_width_var[1] ELSE scale_value

\* lines 1676-1685: a line longer than the maximal width is replaced by the
\* pieces split_string makes of it, an empty line becomes one space
synthesized_lines(t) ==
    LET ls == splitlines(t)
        max_width == get_max_line_width
    IN Join([k \in 1..Len(ls) |->
                IF Len(ls[k]) > max_width THEN split_string(ls[k], max_width)
                ELSE <<IF ls[k] = <<>> THEN <<" ">> ELSE ls[k]>>])

\* a text box content of k lines, each the one letter c
RECURSIVE LinesOf(_, _)
LinesOf(c, k) == IF k <= 1 THEN <<c>> ELSE <<c, "\n">> \o LinesOf(c, k - 1)

\* the contents of the text box tried in Spec: nothing, or lines of one
\* letter; Generate and Add to Queue are given different letters
GenerateTexts == {<<>>} \cup {LinesOf("a", k) : k \in 1..MaxLines}
QueueTexts == {LinesOf("b", k) : k \in 1..MaxLines}

\* the pieces the long lines of SpecWrap are made of: a short and a longer
\* word, the space and the hyphen
WrapTokens == {<<"a">>, <<"a", "a", "a", "a", "a">>, <<" ">>, <<"-">>}

\* the lines made of at most k pieces
RECURSIVE TokenTexts(_)
TokenTexts(k) ==
    IF k = 0 THEN {<<>>}
    ELSE LET shorter == TokenTexts(k - 1) IN
         shorter \cup {t \o w : t \in shorter, w \in WrapTokens}

\* the contents of the text box tried in SpecWrap: one line of at most
\* MaxWrapTokens pieces without two hyphens in a row
WrapTexts ==
    {t \in TokenTexts(MaxWrapTokens) :
        \A k \in 1..(Len(t) - 1) : ~(t[k] = "-" /\ t[k + 1] = "-")}

\* the contents of the text box tried in SpecRun: also a space, the letter
\* that is lowered and texts with a character that is not valid
RunTexts ==
    {<<>>, <<" ">>, <<"Q">>, <<"@">>, <<"a", "@">>}
        \cup {LinesOf("a", k) : k \in 1..MaxRunLines}

\* the contents of the text box tried in SpecBlank: an empty line before,
\* after and between lines of one letter, and a line of one space
BlankTexts ==
    {<<"\n", "a">>, <<"a", "\n">>, <<"a", "\n", "\n", "a">>, <<"a", "\n", " ">>}

\* ----------------------------------------------------------------- layout
\* the compose loop before it has started, and the page before it is made
None == <<>>
NoCompose == [pc |-> "idle", n |-> 0, i |-> 0, line_spacing |-> 0,
              use_image_placement |-> FALSE, image_bounds |-> None]
NoCanvas == [width |-> 0, height |-> 0]

\* the values the layout settings are moved between: the alignments, the
\* scale (in halves: 20, 80, 80.5, 99.5), the wrap styles, and the rectangle
\* of the placed image as x, y, width, height
Orientations == {"Left", "Middle", "Right"}
LineSpacings == {halves(20), halves(80), 161, 199}
WrapStyles == {"left", "right", "both"}
ImageRects == {<<400, 200, 300, 300>>, <<900, 200, 300, 300>>, <<1500, 200, 300, 300>>}

\* the values the Max Line Width scale is moved between (in halves: 10, 11.5,
\* 42.5) and the texts typed into the custom width entry
LineWidths == {halves(10), 23, halves(42) + 1}
CustomWidths == {<<>>, <<3>>, <<12>>}

\* the sizes of the rasters of the lines: width, height
LineSizes == {<<200, 60>>, <<901, 120>>, <<2101, 60>>}

\* a vertical position that is the same for every line
y_pos_of_first(line_spacing, i) == line_spacing

\* line 1762: y_pos of line i
y_pos(line_spacing, i) == line_spacing * (i + 1)

\* lines 1763-1765: x_pos before the obstacle is looked at, in halves
default_x_pos(o, width) ==
    IF o = "Right" THEN halves(2000 - width)
    ELSE IF o = "Middle" THEN halves(1000) - width
    ELSE halves(400)

\* a test that never finds a collision
collides_never(image_bounds, x, y, width, height) == FALSE

\* lines 1769 and 1771: the two tests that guard the repositioning, for
\* image_bounds = (img_left, img_top, img_right, img_bottom) and x in halves
collides(image_bounds, x, y, width, height) ==
    /\ image_bounds[2] <= y + height /\ y <= image_bounds[4]
    /\ x < halves(image_bounds[3]) /\ x + halves(width) > halves(image_bounds[1])

\* a repositioning without the margin
avoid_close(wrap_style, image_bounds, width) ==
    IF wrap_style = "left" THEN halves(image_bounds[1] - width)
    ELSE halves(image_bounds[3])

\* lines 1772-1778: x_pos of a line that collides, in halves
avoid(wrap_style, image_bounds, width) ==
    IF wrap_style = "left" THEN halves(image_bounds[1] - width - 20)
    ELSE IF wrap_style = "right" THEN halves(image_bounds[3] + 20)
    ELSE IF image_bounds[1] > 2000 - image_bounds[3]
         THEN halves(image_bounds[1] - width - 20)
         ELSE halves(image_bounds[3] + 20)

\* lines 1763-1778: x_pos of a line as it is when the line is pasted, in halves
x_pos(o, wrap_style, use_image_placement, image_bounds, y, width, height) ==
    LET x == default_x_pos(o, width) IN
    IF image_bounds # None /\ use_image_placement
          /\ collides(image_bounds, x, y, width, height)
    THEN avoid(wrap_style, image_bounds, width)
    ELSE x

\* ---------------------------------------------------------------- helpers
Warning(kind, line) == [kind |-> kind, line |-> line]

\* shutil.rmtree(d, ignore_errors=True)
RmTree(f, d) == IF d = NoDir THEN f ELSE [f EXCEPT ![d] = EmptyDir]

\* a disabling that leaves the two removal buttons as they are
disable_controls_but_removal(b) ==
    [x \in Buttons |->
        IF x \in {"remove_from_queue_btn", "clear_queue_btn"} THEN b[x] ELSE "disabled"]

\* disable_controls
disable_controls(b) == [x \in Buttons |-> "disabled"]

\* enable_controls, q the queue length read by it
enable_controls(b, q) ==
    [x \in Buttons |->
        IF x = "process_queue_btn" THEN (IF q > 0 THEN "normal" ELSE b[x])
        ELSE "normal"]

\* the record of a freshly started thread (Thread(...).start() in generate_dialog);
\* pos, job, len, epoch, txt and snap remember what the thread was started
\* for: the queue position, the item at it, the queue length, the
\* Process-Queue click, the text, and the live settings at that moment
NewRun(isq, idx, q, ep, t) ==
    [NoRun EXCEPT !.pc = "init", !.isq = isq, !.txt = t,
                  !.snap = <<legibilityscale, currentstyle, export_format>>,
                  !.pos = IF isq THEN idx ELSE 0,
                  !.job = IF isq THEN q[idx + 1].id ELSE 0,
                  !.len = IF isq THEN Len(q) ELSE 0,
                  !.epoch = IF isq THEN ep ELSE 0]

\* the settings as __init__ and the widgets set them
Defaults ==
    [currentstyle |-> 0, legibility |-> 50, export_format |-> "png",
     background_type |-> "white", background_color |-> "white"]

\* the preferences files save_prefs may have left: none (the defaults are
\* kept), or one written when PDF, a background image and another style,
\* legibility and colour were chosen
PrefsFiles ==
    {Defaults,
     [currentstyle |-> 1, legibility |-> 100, export_format |-> "pdf",
      background_type |-> "image", background_color |-> "red"]}

\* a load_prefs that restores every setting of the file
load_prefs_all(d) == d

\* load_prefs at the end of __init__, for the preferences file d: the style
\* and the legibility are restored, then self.custom_width_var.set raises, as
\* the right panel is created later (root.after(50, ...)), and the except
\* clause drops the rest: the settings after it
load_prefs(d) ==
    [Defaults EXCEPT !.currentstyle = d.currentstyle, !.legibility = d.legibility]

\* the settings are s
Restored(s) ==
    /\ currentstyle = s.currentstyle
    /\ legibilityscale = s.legibility
    /\ export_format = s.export_format
    /\ background_type = s.background_type
    /\ background_color = s.background_color

\* the window after __init__ and create_right_panel_sections, but for the
\* settings load_prefs deals with
Constructed ==
    /\ text_queue = <<>>
    /\ processing_queue = FALSE
    /\ current_queue_index = 0
    /\ _cancel = FALSE
    /\ _errors = <<>>
    /\ text = <<>>
    /\ tempdir = NoDir
    /\ generatedialog = 0
    /\ dialogs = {}
    /\ btn = [x \in Buttons |-> IF x = "process_queue_btn" THEN "disabled" ELSE "normal"]
    /\ afterq = <<>>
    /\ run = [r \in Runs |-> NoRun]
    /\ fs = [r \in Runs |-> EmptyDir]
    /\ outputs = {}
    /\ nextJob = 1
    /\ nclicks = 0
    /\ nstarts = 0
    /\ nfaults = 0
    /\ auto_remove_invalid = FALSE
    /\ background_image_path = <<>>
    /\ progress = [d \in Runs |-> 0]
    /\ _mini_prev_after = _queue_mini_preview
    /\ shown = [r \in Runs |-> NoStatus]
    /\ preview_info = NoPreview
    /\ previewed = {}
    /\ log_btn = {}
    /\ logview = {}
    /\ orientation = "Left"
    /\ lineheightscale = halves(80)
    /\ image_enabled = FALSE
    /\ image_rect = <<400, 200, 300, 300>>
    /\ image_wrap_style = "both"
    /\ linewidthscale = halves(42) + 1
    /\ custom_width_var = <<42>>
    /\ compose = NoCompose
    /\ canvas = NoCanvas
    /\ pasted = <<>>

\* the window started without a preferences file, reportlab installed
InitWindow == Constructed /\ Restored(Defaults) /\ PDF_AVAILABLE = TRUE

Init == InitWindow /\ follow_labels = FALSE /\ follow_progress = FALSE

InitRun == InitWindow /\ follow_labels = TRUE /\ follow_progress = FALSE

\* the window whose progress bars are followed
InitProgress == InitWindow /\ follow_labels = FALSE /\ follow_progress = TRUE

\* the window started with or without reportlab, with one of the
\* preferences files
InitEncode ==
    /\ Constructed
    /\ follow_labels = FALSE
    /\ follow_progress = FALSE
    /\ PDF_AVAILABLE \in BOOLEAN
    /\ \E d \in PrefsFiles : Restored(load_prefs(d))

\* ------------------------------------------------------- controller thread

\* a click, counted
Click ==
    /\ nclicks < MaxClicks
    /\ nclicks' = nclicks + 1

\* generate_dialog from its dialog creation on (lines 1599-1640): the flags
\* were reset at its top; a new dialog, with its label, replaces
\* self.generatedialog and a new worker thread is started.  rs is the run
\* function to extend.
generate_dialog(rs, isq, idx, q, ep) ==
    LET rid == NRuns + 1 IN
    /\ _cancel' = FALSE
    /\ _errors' = <<>>
    /\ generatedialog' = rid
    /\ dialogs' = dialogs \cup {rid}
    /\ run' = [rs EXCEPT ![rid] = NewRun(isq, idx, q, ep, text')]

\* the Generate button: generate_dialog(win, is_queue_item=False) with c the
\* content of the text box.  self.text is assigned before the validation; a
\* blank text, or without auto-remove a text with an invalid character, is
\* rejected (the button is enabled again); with auto-remove the invalid
\* characters are dropped after the test for a blank text
Generate(c) ==
    LET t == replaceQX(inputtext_get(c))
        rejected == IsBlank(t) \/ (~auto_remove_invalid /\ HasInvalid(t))
    IN
    /\ btn["generatebutton"] = "normal"
    /\ Click
    /\ IF rejected
       THEN /\ text' = t
            /\ _cancel' = FALSE
            /\ _errors' = <<>>
            /\ UNCHANGED <<generatedialog, dialogs, run, btn>>
       ELSE /\ text' = IF auto_remove_invalid THEN FilterValid(t) ELSE t
            /\ btn' = [btn EXCEPT !["generatebutton"] = "disabled"]
            /\ generate_dialog(run, FALSE, 0, text_queue, 0)
    /\ UNCHANGED <<text_queue, processing_queue, current_queue_index, tempdir,
                   afterq, fs, outputs, nextJob, nstarts, nfaults, settings, shown, follow_labels, views, layout, paper, bars, _mini_prev_after>>

\* an insertion at the front of the list
appendleft(q, x) == <<x>> \o q

\* list.append
append(q, x) == Append(q, x)

\* the Add to Queue button with c the content of the text box; a rejected
\* text returns without any change; with auto-remove the invalid characters
\* are dropped after the test for a blank text
add_to_queue(c) ==
    LET t == replaceQX(inputtext_get(c))
        rejected == IsBlank(t) \/ (~auto_remove_invalid /\ HasInvalid(t))
    IN
    /\ btn["add_to_queue_btn"] = "normal"
    /\ Click
    /\ IF rejected
       THEN UNCHANGED <<text_queue, nextJob, btn>>
       ELSE /\ text_queue' = append(text_queue,
                     QueueItem(IF auto_remove_invalid THEN FilterValid(t) ELSE t, nextJob))
            /\ nextJob' = nextJob + 1
            /\ btn' = [btn EXCEPT !["process_queue_btn"] = "normal"]
    /\ UNCHANGED <<processing_queue, current_queue_index, _cancel, _errors, text,
                   tempdir, generatedialog, dialogs, afterq, run, fs, outputs,
                   nstarts, nfaults, settings, shown, follow_labels, views, layout, paper, bars, _mini_prev_after>>

\* list.pop(index), index 0-based
Pop(q, index) == [k \in 1..(Len(q) - 1) |-> IF k <= index THEN q[k] ELSE q[k + 1]]

\* the Remove Selected button, index the selected listbox row (0-based)
remove_from_queue(index) ==
    /\ btn["remove_from_queue_btn"] = "normal"
    /\ Click
    /\ index < Len(text_queue)
    /\ text_queue' = Pop(text_queue, index)
    /\ btn' = IF Len(text_queue') = 0
              THEN [btn EXCEPT !["process_queue_btn"] = "disabled"]
              ELSE btn
    /\ UNCHANGED <<processing_queue, current_queue_index, _cancel, _errors, text,
                   tempdir, generatedialog, dialogs, afterq, run, fs, outputs,
                   nextJob, nstarts, nfaults, settings, shown, follow_labels, views, layout, paper, bars, _mini_prev_after>>

\* the Clear Queue button, confirmed
clear_queue ==
    /\ btn["clear_queue_btn"] = "normal"
    /\ Click
    /\ Len(text_queue) # 0
    /\ text_queue' = <<>>
    /\ btn' = [btn EXCEPT !["process_queue_btn"] = "disabled"]
    /\ UNCHANGED <<processing_queue, current_queue_index, _cancel, _errors, text,
                   tempdir, generatedialog, dialogs, afterq, run, fs, outputs,
                   nextJob, nstarts, nfaults, settings, shown, follow_labels, views, layout, paper, bars, _mini_prev_after>>

\* the index process_queue starts from
FirstIndex == 0

\* the Process Queue button: process_queue, then process_next_queue_item and
\* generate_dialog(is_queue_item=True) for the first item
process_queue ==
    /\ btn["process_queue_btn"] = "normal"
    /\ Click
    /\ Len(text_queue) # 0
    /\ processing_queue' = TRUE
    /\ current_queue_index' = FirstIndex
    /\ btn' = disable_controls(btn)
    /\ nstarts' = nstarts + 1
    /\ text' = text_queue[FirstIndex + 1].text
    /\ generate_dialog(run, TRUE, FirstIndex, text_queue, nstarts + 1)
    /\ UNCHANGED <<text_queue, tempdir, afterq, fs, outputs, nextJob, nfaults,
                   settings, shown, follow_labels, views, layout, paper, bars, _mini_prev_after>>

\* the Cancel button of a generation dialog: setattr(self, "_cancel", True)
Cancel ==
    /\ dialogs # {}
    /\ ~_cancel
    /\ Click
    /\ _cancel' = TRUE
    /\ UNCHANGED <<text_queue, processing_queue, current_queue_index, _errors,
                   text, tempdir, generatedialog, dialogs, btn, afterq, run, fs,
                   outputs, nextJob, nstarts, nfaults, settings, shown, follow_labels, views, layout, paper, bars, _mini_prev_after>>

\* everything but the live settings and the click count
allButSettings ==
    <<text_queue, processing_queue, current_queue_index, _cancel, _errors,
      text, tempdir, generatedialog, dialogs, btn, afterq, run, fs, outputs,
      nextJob, nstarts, nfaults, shown, follow_labels, views, layout, paper, bars>>

\* the "Auto-remove invalid characters" checkbox is toggled
auto_remove_checkbox ==
    /\ Click
    /\ auto_remove_invalid' = ~auto_remove_invalid
    /\ UNCHANGED <<currentstyle, legibilityscale, export_format, _mini_prev_after,
                   allButSettings>>

\* another handwriting style is picked: set_style, which ends with
\* _queue_mini_preview
set_style(styleindex) ==
    /\ Click
    /\ styleindex # currentstyle
    /\ currentstyle' = styleindex
    /\ _mini_prev_after' = _queue_mini_preview
    /\ UNCHANGED <<auto_remove_invalid, legibilityscale, export_format, allButSettings>>

\* the legibility slider is moved to value; update_legibility_value ends with
\* _queue_mini_preview
update_legibility_value(value) ==
    /\ Click
    /\ value # legibilityscale
    /\ legibilityscale' = value
    /\ _mini_prev_after' = _queue_mini_preview
    /\ UNCHANGED <<auto_remove_invalid, currentstyle, export_format, allButSettings>>

\* another export format is picked with the radio buttons; the PDF radio
\* button is disabled when reportlab is missing
update_export_format_options(value) ==
    /\ Click
    /\ value # export_format
    /\ value = "pdf" => PDF_AVAILABLE
    /\ export_format' = value
    /\ UNCHANGED <<auto_remove_invalid, currentstyle, legibilityscale,
                   _mini_prev_after, allButSettings>>

\* the timer of the live preview is due: _render_mini_preview, on the
\* controller thread, makes self.hand if there is none and calls
\* self.hand.write for the sample; the id of the timer is left in
\* self._mini_prev_after
_render_mini_preview ==
    /\ _mini_prev_after = "pending"
    /\ _mini_prev_after' = "fired"
    /\ UNCHANGED <<auto_remove_invalid, currentstyle, legibilityscale, export_format,
                   nclicks, allButSettings>>

\* everything but the background settings and the click count
allButPaper ==
    <<text_queue, processing_queue, current_queue_index, _cancel, _errors,
      text, tempdir, generatedialog, dialogs, btn, afterq, run, fs, outputs,
      nextJob, nstarts, nfaults, settings, shown, follow_labels, views, layout,
      PDF_AVAILABLE, bars, _mini_prev_after>>

\* another background type is picked with the radio buttons
background_options(value) ==
    /\ Click
    /\ value # background_type
    /\ background_type' = value
    /\ UNCHANGED <<background_color, background_image_path, allButPaper>>

\* choose_background_color: the colour picked in the colour dialog, which the
\* "Choose Color" button of the type Custom Color opens
choose_background_color(color) ==
    /\ background_type = "color"
    /\ Click
    /\ color # background_color
    /\ background_color' = color
    /\ UNCHANGED <<background_type, background_image_path, allButPaper>>

\* choose_background_image: a file is picked in the file dialog, which the
\* "Browse..." button of the type Image opens
choose_background_image ==
    /\ background_type = "image"
    /\ Click
    /\ background_image_path = <<>>
    /\ background_image_path' = <<"file">>
    /\ UNCHANGED <<background_type, background_color, allButPaper>>

\* the newest of the posted callbacks
DueLast(q) == Len(q)

\* the callback the Tk main loop runs next: the oldest one
Due(q) == 1

\* list q without its element at index k
Without(q, k) == SubSeq(q, 1, k - 1) \o SubSeq(q, k + 1, Len(q))

\* show_preview_after_dialog, run as the callback posted by run r: what
\* self.preview_info holds now is shown, if it is to be shown and there is a file
show_preview_after_dialog(r) ==
    IF preview_info.show_preview /\ preview_info.output_files # {}
    THEN previewed \cup {[by |-> r, file |-> f] : f \in preview_info.output_files}
    ELSE previewed

\* the Tk main loop runs the callback that is due; label.config or pack on a
\* widget whose dialog was destroyed raises and shows nothing; the message box
\* of the queue completion changes nothing
ui ==
    /\ afterq # <<>>
    /\ afterq' = Without(afterq, Due(afterq))
    /\ LET cb == afterq[Due(afterq)] IN
         /\ btn' = IF cb.fn = "generatebutton.config"
                   THEN [btn EXCEPT !["generatebutton"] = "normal"] ELSE btn
         /\ dialogs' = IF cb.fn = "destroy" THEN dialogs \ {cb.arg} ELSE dialogs
         /\ shown' = IF cb.fn = "generatelabel.config" /\ cb.arg \in dialogs
                     THEN [shown EXCEPT ![cb.run] = cb.st] ELSE shown
         /\ log_btn' = IF cb.fn = "_log_btn.pack" /\ cb.arg \in dialogs
                       THEN log_btn \cup {cb.arg} ELSE log_btn
         /\ previewed' = IF cb.fn = "show_preview_after_dialog"
                         THEN show_preview_after_dialog(cb.run) ELSE previewed
         /\ progress' = IF cb.fn = "step_bar_after" /\ cb.arg \in dialogs
                        THEN [progress EXCEPT ![cb.arg] = step_bar_after(@, cb.st.line)]
                        ELSE progress
    /\ UNCHANGED <<text_queue, processing_queue, current_queue_index, _cancel,
                   _errors, text, tempdir, generatedialog, run, fs, outputs,
                   nextJob, nclicks, nstarts, nfaults, settings, follow_labels,
                   preview_info, logview, layout, paper, follow_progress,
                   _mini_prev_after>>

\* the "View log" button of dialog d: _show_errors shows what self._errors
\* holds now (without any entry a message box says so)
_show_errors(d) ==
    /\ d \in log_btn \cap dialogs
    /\ Click
    /\ logview' = logview \cup {[dialog |-> d, text |-> _errors]}
    /\ UNCHANGED <<text_queue, processing_queue, current_queue_index, _cancel,
                   _errors, text, tempdir, generatedialog, dialogs, btn, afterq,
                   run, fs, outputs, nextJob, nstarts, nfaults, settings, shown,
                   follow_labels, preview_info, previewed, log_btn, layout, paper, bars, _mini_prev_after>>

\* self.ui(fn) for a method fn of widget arg
Post(fn, arg) == [fn |-> fn, arg |-> arg, run |-> 0, st |-> NoStatus]

\* self.ui(fn) by run r for a method fn of the window, or a message box with
\* the text st
PostBy(fn, r, st) == [fn |-> fn, arg |-> 0, run |-> r, st |-> st]

\* self.ui(self.generatelabel.config, text=...) by run r: the callbacks it
\* adds to the queue
PostStatus(r, st) ==
    IF follow_labels
    THEN <<[fn |-> "generatelabel.config", arg |-> generatedialog, run |-> r, st |-> st]>>
    ELSE <<>>

\* self.ui(self.step_bar_after, self.progress, total) by run r: self.progress
\* is the bar of the dialog made last
PostProgress(r, total) ==
    IF follow_progress
    THEN <<[fn |-> "step_bar_after", arg |-> generatedialog, run |-> r,
            st |-> Status("progress", total)]>>
    ELSE <<>>

\* ----------------------------------------------------------- worker thread

\* a bail-out after which the thread starts over
bail_out_restarts(r, rec, f, d, a) ==
    /\ fs' = RmTree(f, d)
    /\ afterq' = a
    /\ btn' = btn
    /\ run' = [run EXCEPT ![r] = [rec EXCEPT !.pc = "init", !.i = 0]]

\* bail_out() of generate_writing, called by run r whose record is rec, with
\* f the directories, d self.tempdir and a the posted callbacks at that
\* moment; at remembers the unit of work after which the poll saw the flag
bail_out(r, rec, f, d, a) ==
    /\ fs' = RmTree(f, d)
    /\ afterq' = a
                 \o (IF generatedialog \in dialogs
                     THEN <<Post("destroy", generatedialog)>> ELSE <<>>)
                 \o (IF ~rec.isq THEN <<Post("generatebutton.config", 0)>> ELSE <<>>)
    /\ btn' = IF rec.isq THEN enable_controls(btn, Len(text_queue)) ELSE btn
    /\ run' = [run EXCEPT ![r] = [rec EXCEPT !.pc = "cancelled", !.i = 0, !.at = run[r].pc]]

\* a poll that does not see the flag
CancelSeenNever == FALSE

\* what "if self._cancel:" reads
CancelSeen == _cancel

\* "if self._cancel: bail_out(); return" after a unit of work that left run r
\* as rec, the directories as f, self.tempdir as d, self._errors as e and the
\* posted callbacks as a
Poll(r, rec, f, d, e, a) ==
    /\ tempdir' = d
    /\ _errors' = e
    /\ IF CancelSeen
       THEN bail_out(r, rec, f, d, a)
       ELSE /\ fs' = f
            /\ afterq' = a
            /\ run' = [run EXCEPT ![r] = rec]
            /\ UNCHANGED btn

\* lines 1659-1663: Hand(), first progress step, first poll
InitHand(r) ==
    /\ run[r].pc = "init"
    /\ Poll(r, [run[r] EXCEPT !.pc = "prepare"], fs, tempdir, _errors,
            afterq \o PostProgress(r, hand_step))
    /\ UNCHANGED <<text_queue, processing_queue, current_queue_index, _cancel,
                   text, generatedialog, dialogs, outputs, nextJob, nclicks,
                   nstarts, nfaults, settings, shown, follow_labels, views, layout, paper, bars, _mini_prev_after>>

\* lines 1665-1693: the status is posted, the legibility is read, self.text is
\* split into lines, the temporary directory is created and stored in
\* self.tempdir; a text without any line makes 60/len(synthesized_lines)
\* raise, which nothing catches; otherwise the poll of the first iteration
\* follows
PrepareLines(r) ==
    LET f == [fs EXCEPT ![r] = [exists |-> TRUE, svg |-> {}, png |-> {}]]
        a == afterq \o PostStatus(r, Status("Preparing Lines", 0))
        b == a \o PostProgress(r, prepare_step)
        sl == synthesized_lines(text)
        rec == [run[r] EXCEPT !.pc = "synth", !.i = 0, !.n = Len(sl), !.lines = sl,
                              !.use.bias = {legibilityscale},
                              !.max_width = get_max_line_width]
    IN
    /\ run[r].pc = "prepare"
    /\ IF Len(sl) = 0
       THEN /\ run' = [run EXCEPT ![r] = [rec EXCEPT !.pc = "crashed"]]
            /\ fs' = f
            /\ tempdir' = r
            /\ afterq' = a
            /\ UNCHANGED <<_errors, btn>>
       ELSE Poll(r, rec, f, r, _errors, b)
    /\ UNCHANGED <<text_queue, processing_queue, current_queue_index, _cancel,
                   text, generatedialog, dialogs, outputs, nextJob, nclicks,
                   nstarts, nfaults, settings, shown, follow_labels, views, layout, paper, bars, _mini_prev_after>>

\* a file can be written into directory d
Writable(d) == d # NoDir /\ fs[d].exists

\* an external call that could succeed (can) returns (ok) or raises; the calls
\* that raise although they could succeed are counted
Raises(ok, can) ==
    /\ ~can => ok
    /\ nfaults' = IF ok THEN nfaults ELSE nfaults + 1
    /\ ~ok => nfaults < MaxFaults

\* lines 1695-1714 for line i and the poll that follows (line 1693 of the
\* next iteration, or line 1719 after the last line and the status
\* 'Rasterizing Lines'); hand.write is given self.currentstyle as it is now;
\* ok: hand.write returns
SynthesizeLine(r, ok) ==
    LET me == run[r]
        done == ok /\ Writable(tempdir)
        w == Warning("Synthesize line", me.i + 1)
        last == me.i + 1 >= me.n
        a == afterq \o PostStatus(r, Status("Synthesizing Lines", me.i + 1))
             \o PostProgress(r, proglength(60, me.n))
             \o (IF last THEN PostStatus(r, Status("Rasterizing Lines", 0)) ELSE <<>>)
        rec1 == [me EXCEPT !.log = IF done THEN @ ELSE Append(@, w),
                           !.use.styles = Append(@, currentstyle)]
        rec == IF last
               THEN [rec1 EXCEPT !.pc = "raster", !.i = 0]
               ELSE [rec1 EXCEPT !.i = me.i + 1]
    IN
    /\ me.pc = "synth"
    /\ Raises(ok, Writable(tempdir))
    /\ Poll(r, rec,
            IF done THEN [fs EXCEPT ![tempdir].svg = @ \cup {me.i}] ELSE fs,
            tempdir,
            IF done THEN _errors ELSE Append(_errors, w),
            a)
    /\ UNCHANGED <<text_queue, processing_queue, current_queue_index, _cancel,
                   text, generatedialog, dialogs, outputs, nextJob, nclicks,
                   nstarts, settings, shown, follow_labels, views, layout, paper, bars, _mini_prev_after>>

\* lines 1721-1733 for line i and the poll that follows (line 1719 of the
\* next iteration, or line 1735 after the last line); a line of one space
\* gets the blank raster and needs no svg; ok: svg2png, or the save, returns
RasterizeLine(r, ok) ==
    LET me == run[r]
        can == /\ Writable(tempdir)
               /\ (me.lines[me.i + 1] = <<" ">> \/ me.i \in fs[tempdir].svg)
        done == ok /\ can
        w == Warning("Rasterize line", me.i + 1)
        a == afterq \o PostStatus(r, Status("Rasterizing", me.i + 1))
             \o PostProgress(r, proglength(20, me.n))
        rec1 == IF done THEN me ELSE [me EXCEPT !.log = Append(@, w)]
        rec == IF me.i + 1 < me.n
               THEN [rec1 EXCEPT !.i = me.i + 1]
               ELSE [rec1 EXCEPT !.pc = "compose", !.i = 0]
    IN
    /\ me.pc = "raster"
    /\ Raises(ok, can)
    /\ Poll(r, rec,
            IF done THEN [fs EXCEPT ![tempdir].png = @ \cup {me.i}] ELSE fs,
            tempdir,
            IF done THEN _errors ELSE Append(_errors, w),
            a)
    /\ UNCHANGED <<text_queue, processing_queue, current_queue_index, _cancel,
                   text, generatedialog, dialogs, outputs, nextJob, nclicks,
                   nstarts, settings, shown, follow_labels, views, layout, paper, bars, _mini_prev_after>>

\* lines 1737-1781 for line i: before the first line the status 'Combining
\* Lines' is posted and the canvas made; the raster of line i is opened and
\* pasted; Image.open of a raster that is not there raises, and nothing
\* catches it: the thread dies.  The loop does not poll: the poll of line 1781
\* follows the last line only.
ComposeLine(r) ==
    LET me == run[r]
        there == Writable(tempdir) /\ me.i \in fs[tempdir].png
        a == IF me.i = 0
             THEN afterq \o PostStatus(r, Status("Combining Lines", 0))
             ELSE afterq
    IN
    /\ me.pc = "compose"
    /\ IF ~there
       THEN /\ run' = [run EXCEPT ![r].pc = "crashed"]
            /\ afterq' = a
            /\ UNCHANGED <<fs, tempdir, _errors, btn>>
       ELSE IF me.i + 1 < me.n
       THEN /\ run' = [run EXCEPT ![r].i = me.i + 1]
            /\ afterq' = a
            /\ UNCHANGED <<fs, tempdir, _errors, btn>>
       ELSE Poll(r, [me EXCEPT !.pc = "encode", !.i = 0], fs, tempdir, _errors, a)
    /\ UNCHANGED <<text_queue, processing_queue, current_queue_index, _cancel,
                   text, generatedialog, dialogs, outputs, nextJob, nclicks,
                   nstarts, nfaults, settings, shown, follow_labels, views, layout, paper, bars, _mini_prev_after>>

\* lines 1796-1811: final_output for the background type, colour and image
\* path read; loads: Image.open and resize of the background image return.
\* Without a background the page is kept as it is; otherwise it is pasted on a
\* page of its size filled with white for the type White and with
\* self.background_color for the other types, or on the image
background(bg_type, bg_color, path, loads) ==
    IF bg_type = "transparent"
    THEN [flattened |-> FALSE, fill |-> "none"]
    ELSE IF bg_type = "image" /\ path # <<>> /\ loads
    THEN [flattened |-> TRUE, fill |-> "image"]
    ELSE [flattened |-> TRUE, fill |-> IF bg_type = "white" THEN "white" ELSE bg_color]

\* lines 1813-1825: a file is written for png and jpg, and for pdf when
\* reportlab is there; for any other case no branch is taken
saves(format, pdf_available) ==
    format \in {"png", "jpg"} \/ (format = "pdf" /\ pdf_available)

\* lines 1783-1836: trim, file name (a queue item reads
\* text_queue[current_queue_index], an IndexError kills the thread), the
\* background and the export format are read, the page is put on its
\* background (loads: the background image can be opened; a failure is caught
\* as a warning), save (ok: the save returns; a failure is caught as a
\* warning), the last progress step is posted, self.preview_info is written,
\* rmtree
EncodeOutput(r, ok, loads) ==
    LET me == run[r]
        opens == background_type = "image" /\ background_image_path # <<>>
        can == saves(export_format, PDF_AVAILABLE)
        done == ok /\ can
        ws == (IF opens /\ ~loads THEN <<Warning("Background image", 0)>> ELSE <<>>)
              \o (IF can /\ ~ok THEN <<Warning("Saving output file", 0)>> ELSE <<>>)
        final_output == background(background_type, background_color,
                                   background_image_path, loads)
    IN
    /\ me.pc = "encode"
    /\ IF me.isq /\ current_queue_index >= Len(text_queue)
       THEN /\ run' = [run EXCEPT ![r].pc = "crashed"]
            /\ ok
            /\ loads
            /\ UNCHANGED <<fs, _errors, outputs, nfaults, preview_info, afterq>>
       ELSE /\ Raises(ok, can)
            /\ ~opens => loads
            /\ preview_info' =
                  [show_preview |-> ~me.isq \/ current_queue_index + 1 = Len(text_queue),
                   output_files |-> IF done THEN {r} ELSE {},
                   final_output |-> final_output]
            /\ outputs' = IF done THEN outputs \cup {r} ELSE outputs
            /\ _errors' = _errors \o ws
            /\ run' = [run EXCEPT ![r] =
                         [me EXCEPT !.pc = "finish",
                                    !.use.format = {export_format},
                                    !.use.background = {<<background_type, background_color,
                                                          background_image_path, loads>>},
                                    !.final_output = final_output,
                                    !.log = @ \o ws]]
            /\ fs' = RmTree(fs, tempdir)
            /\ afterq' = afterq \o PostProgress(r, last_step)
    /\ UNCHANGED <<text_queue, processing_queue, current_queue_index, _cancel,
                   text, tempdir, generatedialog, dialogs, btn, nextJob,
                   nclicks, nstarts, settings, shown, follow_labels, previewed,
                   log_btn, logview, layout, paper, bars, _mini_prev_after>>

\* an advancement that skips an item
AdvanceTwo == 1 + 1

\* by how much a finished queue run advances current_queue_index
Advance == 1

\* the message box that ends the queue
QueueComplete == Status("All items processed.", 0)

\* lines 1839-1859: with warnings the "View log" button is packed and the
\* status 'Finished with warnings' is posted, without the dialog is destroyed;
\* the preview callback is posted; a queue run advances current_queue_index
\* and either goes on to the next item or ends the queue, with a message box
\* when self._errors is empty; a single run re-enables the Generate button
FinishRun(r) ==
    LET me == run[r]
        closing == (IF _errors = <<>>
                    THEN <<Post("destroy", generatedialog)>>
                    ELSE <<Post("_log_btn.pack", generatedialog)>>
                         \o PostStatus(r, Status("Finished with warnings", 0)))
                   \o <<PostBy("show_preview_after_dialog", r, NoStatus)>>
        idx == current_queue_index + Advance
    IN
    /\ me.pc = "finish"
    /\ IF me.isq
       THEN /\ current_queue_index' = idx
            /\ IF idx < Len(text_queue)
               THEN /\ run' = [run EXCEPT ![r].pc = "next"]
                    /\ afterq' = afterq \o closing
                    /\ UNCHANGED <<processing_queue, btn>>
               ELSE /\ run' = [run EXCEPT ![r].pc = "done"]
                    /\ processing_queue' = FALSE
                    /\ btn' = enable_controls(btn, Len(text_queue))
                    /\ afterq' = afterq \o closing
                                 \o (IF _errors = <<>>
                                     THEN <<PostBy("messagebox.showinfo", r, QueueComplete)>>
                                     ELSE <<>>)
       ELSE /\ afterq' = afterq \o closing \o <<Post("generatebutton.config", 0)>>
            /\ run' = [run EXCEPT ![r].pc = "done"]
            /\ UNCHANGED <<current_queue_index, processing_queue, btn>>
    /\ UNCHANGED <<text_queue, _cancel, _errors, text, tempdir, generatedialog,
                   dialogs, fs, outputs, nextJob, nclicks, nstarts, nfaults,
                   settings, shown, follow_labels, views, layout, paper, bars, _mini_prev_after>>

\* lines 1851-1852 and process_next_queue_item, run by the worker thread of
\* the item that just finished: the next item's thread is started
process_next_queue_item(r) ==
    LET me == run[r] IN
    /\ me.pc = "next"
    /\ IF current_queue_index >= Len(text_queue)
       THEN /\ processing_queue' = FALSE
            /\ btn' = enable_controls(btn, Len(text_queue))
            /\ run' = [run EXCEPT ![r].pc = "done"]
            /\ UNCHANGED <<_cancel, _errors, text, generatedialog, dialogs>>
       ELSE /\ text' = text_queue[current_queue_index + 1].text
            /\ generate_dialog([run EXCEPT ![r].pc = "done"], TRUE,
                               current_queue_index, text_queue, me.epoch)
            /\ UNCHANGED <<processing_queue, btn>>
    /\ UNCHANGED <<text_queue, current_queue_index, tempdir, afterq, fs, outputs,
                   nextJob, nclicks, nstarts, nfaults, settings, shown, follow_labels, views, layout, paper, bars, _mini_prev_after>>

\* -------------------------------------------------- the page being composed
\* everything but the layout and the click count
allButLayout ==
    <<text_queue, processing_queue, current_queue_index, _cancel, _errors,
      text, tempdir, generatedialog, dialogs, btn, afterq, run, fs, outputs,
      nextJob, nstarts, nfaults, settings, shown, follow_labels, views, paper, bars, _mini_prev_after>>

\* another alignment is picked in the Text Alignment box
orientation_menu(value) ==
    /\ Click
    /\ value # orientation
    /\ orientation' = value
    /\ UNCHANGED <<lineheightscale, image_enabled, image_rect, image_wrap_style,
                   linewidthscale, custom_width_var, compose, canvas, pasted,
                   allButLayout>>

\* the Line Spacing scale is moved to value
update_line_spacing_value(value) ==
    /\ Click
    /\ value # lineheightscale
    /\ lineheightscale' = value
    /\ UNCHANGED <<orientation, image_enabled, image_rect, image_wrap_style,
                   linewidthscale, custom_width_var, compose, canvas, pasted,
                   allButLayout>>

\* the image placement checkbox is toggled
image_enabled_check ==
    /\ Click
    /\ image_enabled' = ~image_enabled
    /\ UNCHANGED <<orientation, lineheightscale, image_rect, image_wrap_style,
                   linewidthscale, custom_width_var, compose, canvas, pasted,
                   allButLayout>>

\* the position and size of the placed image are entered
position_frame(value) ==
    /\ Click
    /\ value # image_rect
    /\ image_rect' = value
    /\ UNCHANGED <<orientation, lineheightscale, image_enabled, image_wrap_style,
                   linewidthscale, custom_width_var, compose, canvas, pasted,
                   allButLayout>>

\* the Max Line Width scale is moved to value: update_line_width_value puts
\* int(value) into the custom width entry
update_line_width_value(value) ==
    /\ Click
    /\ value # linewidthscale
    /\ linewidthscale' = value
    /\ custom_width_var' = <<int(value)>>
    /\ UNCHANGED <<orientation, lineheightscale, image_enabled, image_rect,
                   image_wrap_style, compose, canvas, pasted, allButLayout>>

\* value is typed into the custom width entry
custom_width_entry(value) ==
    /\ Click
    /\ value # custom_width_var
    /\ custom_width_var' = value
    /\ UNCHANGED <<orientation, lineheightscale, image_enabled, image_rect,
                   image_wrap_style, linewidthscale, compose, canvas, pasted,
                   allButLayout>>

\* another wrap style is picked with the radio buttons
wrap_options(value) ==
    /\ Click
    /\ value # image_wrap_style
    /\ image_wrap_style' = value
    /\ UNCHANGED <<orientation, lineheightscale, image_enabled, image_rect,
                   linewidthscale, custom_width_var, compose, canvas, pasted,
                   allButLayout>>

\* lines 1737-1758 for a page of n lines: the spacing is read, the canvas
\* made, and with image placement on the image is opened and pasted and its
\* bounds kept; img tells whether there is an image file ("none": no path or no
\* file) and whether it can be opened and resized ("broken": it raises, which
\* is recorded as a warning)
StartCompose(n, img) ==
    LET line_spacing == round(lineheightscale)
        placed == image_enabled /\ img = "ok"
    IN
    /\ compose.pc = "idle"
    /\ compose' = [pc |-> "paste", n |-> n, i |-> 0, line_spacing |-> line_spacing,
                   use_image_placement |-> image_enabled,
                   image_bounds |-> IF placed
                                    THEN <<image_rect[1], image_rect[2],
                                           image_rect[1] + image_rect[3],
                                           image_rect[2] + image_rect[4]>>
                                    ELSE None]
    /\ canvas' = [width |-> 2400, height |-> 400 + line_spacing * n]
    /\ _errors' = IF image_enabled /\ img = "broken"
                  THEN Append(_errors, Warning("Image placement", 0)) ELSE _errors
    /\ UNCHANGED <<text_queue, processing_queue, current_queue_index, _cancel,
                   text, tempdir, generatedialog, dialogs, btn, afterq, run, fs,
                   outputs, nextJob, nclicks, nstarts, nfaults, settings, shown,
                   follow_labels, views, orientation, lineheightscale,
                   image_enabled, image_rect, image_wrap_style, linewidthscale,
                   custom_width_var, pasted, paper, bars, _mini_prev_after>>

\* lines 1760-1779 for line i, whose raster has the size size: the alignment
\* and the wrap style are read as they are now, the line is pasted at
\* (int(x_pos), int(y_pos)); slot remembers x_pos as it was before the
\* obstacle was looked at (in halves)
PasteLine(size) ==
    LET i == compose.i
        y == y_pos(compose.line_spacing, i)
        x == x_pos(orientation, image_wrap_style, compose.use_image_placement,
                   compose.image_bounds, y, size[1], size[2])
    IN
    /\ compose.pc = "paste"
    /\ pasted' = Append(pasted, [x |-> int(x), y |-> y, width |-> size[1],
                                 height |-> size[2], orientation |-> orientation,
                                 wrap_style |-> image_wrap_style,
                                 slot |-> default_x_pos(orientation, size[1])])
    /\ compose' = IF i + 1 < compose.n
                  THEN [compose EXCEPT !.i = i + 1]
                  ELSE [compose EXCEPT !.pc = "done", !.i = i + 1]
    /\ UNCHANGED <<orientation, lineheightscale, image_enabled, image_rect,
                   image_wrap_style, linewidthscale, custom_width_var, canvas,
                   nclicks, allButLayout>>

\* ------------------------------------------------------------ specification
Next ==
    \/ \E c \in GenerateTexts : Generate(c)
    \/ \E c \in QueueTexts : add_to_queue(c)
    \/ \E index \in 0..(MaxClicks - 1) : remove_from_queue(index)
    \/ clear_queue
    \/ process_queue
    \/ Cancel
    \/ \E d \in Runs : _show_errors(d)
    \/ ui
    \/ \E r \in Runs : InitHand(r)
    \/ \E r \in Runs : PrepareLines(r)
    \/ \E r \in Runs, ok \in BOOLEAN : SynthesizeLine(r, ok)
    \/ \E r \in Runs, ok \in BOOLEAN : RasterizeLine(r, ok)
    \/ \E r \in Runs : ComposeLine(r)
    \/ \E r \in Runs, ok \in BOOLEAN, loads \in BOOLEAN : EncodeOutput(r, ok, loads)
    \/ \E r \in Runs : FinishRun(r)
    \/ \E r \in Runs : process_next_queue_item(r)

Spec == Init /\ [][Next]_vars

\* the window used for single runs: Generate with all kinds of texts, Cancel,
\* and the settings changed at any moment
NextRun ==
    \/ \E c \in RunTexts : Generate(c)
    \/ Cancel
    \/ auto_remove_checkbox
    \/ \E styleindex \in Styles : set_style(styleindex)
    \/ \E value \in Legibilities : update_legibility_value(value)
    \/ \E value \in Formats : update_export_format_options(value)
    \/ \E d \in Runs : _show_errors(d)
    \/ ui
    \/ \E r \in Runs : InitHand(r)
    \/ \E r \in Runs : PrepareLines(r)
    \/ \E r \in Runs, ok \in BOOLEAN : SynthesizeLine(r, ok)
    \/ \E r \in Runs, ok \in BOOLEAN : RasterizeLine(r, ok)
    \/ \E r \in Runs : ComposeLine(r)
    \/ \E r \in Runs, ok \in BOOLEAN, loads \in BOOLEAN : EncodeOutput(r, ok, loads)
    \/ \E r \in Runs : FinishRun(r)

SpecRun == InitRun /\ [][NextRun]_vars

\* lines of a page in SpecCompose
MaxComposeLines == 3

\* the composition of one page followed in its geometry, with the layout
\* settings changed before and while the lines are pasted
NextCompose ==
    \/ \E value \in Orientations : orientation_menu(value)
    \/ \E value \in LineSpacings : update_line_spacing_value(value)
    \/ image_enabled_check
    \/ \E value \in ImageRects : position_frame(value)
    \/ \E value \in WrapStyles : wrap_options(value)
    \/ \E n \in 1..MaxComposeLines, img \in {"none", "ok", "broken"} : StartCompose(n, img)
    \/ \E size \in LineSizes : PasteLine(size)

SpecCompose == Init /\ [][NextCompose]_vars

\* a single run of a long line up to the splitting of its text, with the
\* maximal line width changed before
NextWrap ==
    \/ \E c \in WrapTexts : Generate(c)
    \/ \E value \in LineWidths : update_line_width_value(value)
    \/ \E value \in CustomWidths : custom_width_entry(value)
    \/ \E r \in Runs : InitHand(r)
    \/ \E r \in Runs : PrepareLines(r)

SpecWrap == Init /\ [][NextWrap]_vars

\* single runs of texts with empty lines
NextBlank ==
    \/ \E c \in BlankTexts : Generate(c)
    \/ Cancel
    \/ ui
    \/ \E r \in Runs : InitHand(r)
    \/ \E r \in Runs : PrepareLines(r)
    \/ \E r \in Runs, ok \in BOOLEAN : SynthesizeLine(r, ok)
    \/ \E r \in Runs, ok \in BOOLEAN : RasterizeLine(r, ok)
    \/ \E r \in Runs : ComposeLine(r)
    \/ \E r \in Runs, ok \in BOOLEAN, loads \in BOOLEAN : EncodeOutput(r, ok, loads)
    \/ \E r \in Runs : FinishRun(r)

SpecBlank == Init /\ [][NextBlank]_vars

\* single runs of a one-line text with the background and the export format
\* chosen before and during the run
NextEncode ==
    \/ \E c \in {<<"a">>} : Generate(c)
    \/ \E value \in BackgroundTypes : background_options(value)
    \/ \E color \in Colors : choose_background_color(color)
    \/ choose_background_image
    \/ \E value \in ExportFormats : update_export_format_options(value)
    \/ ui
    \/ \E r \in Runs : InitHand(r)
    \/ \E r \in Runs : PrepareLines(r)
    \/ \E r \in Runs, ok \in BOOLEAN : SynthesizeLine(r, ok)
    \/ \E r \in Runs, ok \in BOOLEAN : RasterizeLine(r, ok)
    \/ \E r \in Runs : ComposeLine(r)
    \/ \E r \in Runs, ok \in BOOLEAN, loads \in BOOLEAN : EncodeOutput(r, ok, loads)
    \/ \E r \in Runs : FinishRun(r)

SpecEncode == InitEncode /\ [][NextEncode]_vars

\* the window with its live preview: single runs of one line, the style and
\* the legibility changed at any moment, and the timer of the preview
NextPreview ==
    \/ \E c \in {<<"a">>} : Generate(c)
    \/ \E styleindex \in Styles : set_style(styleindex)
    \/ \E value \in Legibilities : update_legibility_value(value)
    \/ _render_mini_preview
    \/ ui
    \/ \E r \in Runs : InitHand(r)
    \/ \E r \in Runs : PrepareLines(r)
    \/ \E r \in Runs, ok \in BOOLEAN : SynthesizeLine(r, ok)
    \/ \E r \in Runs, ok \in BOOLEAN : RasterizeLine(r, ok)
    \/ \E r \in Runs : ComposeLine(r)
    \/ \E r \in Runs, ok \in BOOLEAN, loads \in BOOLEAN : EncodeOutput(r, ok, loads)
    \/ \E r \in Runs : FinishRun(r)

SpecPreview == Init /\ [][NextPreview]_vars

\* runs started over a behaviour of SpecProgress
MaxProgressRuns == 2

\* the window with its progress bars: single runs and a queue of one item,
\* without faults
NextProgress ==
    \/ \E c \in {LinesOf("a", k) : k \in 1..MaxRunLines} :
          NRuns < MaxProgressRuns /\ Generate(c)
    \/ \E c \in QueueTexts : text_queue = <<>> /\ add_to_queue(c)
    \/ NRuns < MaxProgressRuns /\ process_queue
    \/ ui
    \/ \E r \in Runs : InitHand(r)
    \/ \E r \in Runs : PrepareLines(r)
    \/ \E r \in Runs : SynthesizeLine(r, TRUE)
    \/ \E r \in Runs : RasterizeLine(r, TRUE)
    \/ \E r \in Runs : ComposeLine(r)
    \/ \E r \in Runs : EncodeOutput(r, TRUE, TRUE)
    \/ \E r \in Runs : FinishRun(r)

SpecProgress == InitProgress /\ [][NextProgress]_vars

TypeOK ==
    /\ progress \in [Runs -> 0..(Maximum - 1)]
    /\ follow_progress \in BOOLEAN
    /\ _mini_prev_after \in {"pending", "fired"}
    /\ processing_queue \in BOOLEAN
    /\ _cancel \in BOOLEAN
    /\ follow_labels \in BOOLEAN
    /\ auto_remove_invalid \in BOOLEAN
    /\ currentstyle \in Styles
    /\ legibilityscale \in Legibilities
    /\ export_format \in ExportFormats
    /\ background_type \in BackgroundTypes
    /\ background_color \in Colors
    /\ current_queue_index \in 0..(MaxClicks + 1)
    /\ tempdir \in {NoDir} \cup Runs
    /\ dialogs \subseteq Runs
    /\ outputs \subseteq Runs
    /\ log_btn \subseteq Runs
    /\ orientation \in Orientations
    /\ lineheightscale \in LineSpacings
    /\ image_enabled \in BOOLEAN
    /\ image_rect \in ImageRects
    /\ image_wrap_style \in WrapStyles
    /\ linewidthscale \in LineWidths
    /\ custom_width_var \in {<<int(v)>> : v \in LineWidths} \cup CustomWidths
    /\ compose.pc \in {"idle", "paste", "done"}
    /\ Len(pasted) = compose.i
    /\ preview_info.show_preview \in BOOLEAN
    /\ preview_info.output_files \subseteq Runs
    /\ \A r \in Runs : run[r].pc \in Active \cup Ended \cup {"none"}
    /\ \A r \in Runs : run[r].n = Len(run[r].lines)

\* ------------------------------------------------------------------ claims
Started(r) == run[r].pc # "none"
QueueRuns == {r \in Runs : Started(r) /\ run[r].isq}
ActiveRuns == {r \in Runs : run[r].pc \in Active}

\* run r takes the step that ends it: its result is final, it goes on to at
\* most the queue advancement
Working == Active \ {"next"}
EndsNow(r) == run[r].pc \in Working /\ run'[r].pc \in Ended \cup {"next"}

\* the unit of work run r is in is followed by a poll: all but the pasting
\* of a line that is not the last one, the encoding and the finish
PolledNext(r) ==
    \/ run[r].pc \in {"init", "prepare", "synth", "raster"}
    \/ run[r].pc = "compose" /\ run[r].i + 1 >= run[r].n

\* the lines of run r whose synthesis, or rasterization, was recorded as failed
FailedLines(r, kind) ==
    {run[r].log[k].line : k \in {j \in 1..Len(run[r].log) : run[r].log[j].kind = kind}}
LineFailed(r) ==
    FailedLines(r, "Synthesize line") \cup FailedLines(r, "Rasterize line") # {}

\* C1: cancelling the run of one queue item never prevents the items after it
\* from being run: once a queue run has ended cancelled and there was an item
\* after it, the run of that next item has been started.
C1_CancelKeepsQueueGoing ==
    \A r \in QueueRuns :
        (run[r].pc = "cancelled" /\ run[r].pos + 1 < run[r].len)
        => \E r2 \in QueueRuns : /\ run[r2].epoch = run[r].epoch
                                 /\ run[r2].pos = run[r].pos + 1

\* C2: at every moment at most one worker thread is executing a generation run.
C2_AtMostOneRun == Cardinality(ActiveRuns) <= 1

\* C3: a run in which the synthesis or rasterization of a line failed, and
\* which was not cancelled, goes on through composing and encoding: it does not
\* die, and when it has ended its output file exists.
C3_FailedLineStillOutput ==
    \A r \in Runs :
        LineFailed(r) =>
            /\ run[r].pc # "crashed"
            /\ (run[r].pc = "done" /\ FailedLines(r, "Saving output file") = {})
               => r \in outputs

\* C4: when synthesis of exactly one line k of a run failed, the warning log
\* of the run at its end has exactly one entry, and it references line k.
C4_OneWarningPerFailedLine ==
    \A r \in Runs : \A k \in 1..MaxLines :
        (run[r].pc \in {"finish", "next", "done", "crashed"}
            /\ FailedLines(r, "Synthesize line") = {k})
        => (Len(run[r].log) = 1 /\ run[r].log[1].line = k)

\* C5: when the cancel flag is set while a line of run r is being synthesized
\* or rasterized, the step that finishes that line and polls the flag ends the
\* run as cancelled, with no output file and with its temporary directory gone.
C5_CancelDuringLine ==
    [][\A r \in Runs :
          (_cancel /\ run[r].pc \in {"synth", "raster"} /\ run'[r] # run[r])
          => /\ run'[r].pc = "cancelled"
             /\ r \notin outputs'
             /\ ~fs'[r].exists]_vars

\* C6 as stated: once the cancel flag is set, no output file is written.
C6_NoOutputOnceCancelSet == [][_cancel => outputs' = outputs]_vars

\* C6 amended: a unit of work that finishes while the cancel flag is set is the
\* last one of its run: the poll after it ends the run as cancelled (or the
\* unit itself killed the thread), and a cancelled run has no output file.  The
\* last poll is the one after composing; the flag set later is not looked at.
C6_CancelSeenAtPoll ==
    /\ [](\A r \in Runs : run[r].pc = "cancelled" => r \notin outputs)
    /\ [][\A r \in Runs :
             (_cancel /\ PolledNext(r) /\ run'[r] # run[r])
             => /\ run'[r].pc \in {"cancelled", "crashed"}
                /\ r \notin outputs']_vars

\* the last poll saw the flag: a run cancelled after composing, without output
C6_Witness ==
    \E r \in Runs : /\ run[r].pc = "cancelled"
                    /\ run[r].at = "compose"
                    /\ r \notin outputs

\* C7: no terminated run leaves its temporary directory behind.
C7_TempdirRemoved == \A r \in Runs : run[r].pc \in Ended => ~fs[r].exists

\* C8: an unexpected error in the run of a queue item aborts only that run:
\* the index has advanced past the item, and the queue has gone on to the next
\* item or, after the last item, is Idle.
C8_ErrorKeepsQueueGoing ==
    \A r \in QueueRuns :
        (run[r].pc = "crashed" /\ run[r].epoch = nstarts)
        => /\ current_queue_index > run[r].pos
           /\ run[r].pos + 1 >= run[r].len => ~processing_queue

\* C9: the step that ends the run of a queue item advances
\* current_queue_index by exactly one, and while the queue is Processing the
\* index changes in no other step.
C9_IndexAdvancesByOne ==
    [][/\ \A r \in QueueRuns :
             EndsNow(r) => current_queue_index' = current_queue_index + 1
       /\ (processing_queue /\ processing_queue'
              /\ current_queue_index' # current_queue_index)
          => \E r \in QueueRuns : EndsNow(r)]_vars

\* C10: the runs of one start of the queue are started for positions 0, 1,
\* 2, ... in that order, each position once, each for the item at that
\* position, and the run for a position starts only after the run for the
\* position before it has ended.
C10_FIFO ==
    \A e \in 1..nstarts :
        LET R == {r \in QueueRuns : run[r].epoch = e} IN
        /\ {run[r].pos : r \in R} = 0..(Cardinality(R) - 1)
        /\ \A r1, r2 \in R :
              r1 < r2 => run[r1].pos < run[r2].pos /\ run[r1].pc \in Ended
        /\ \A r \in R :
              run[r].pc \in Active =>
                  /\ run[r].pos < Len(text_queue)
                  /\ text_queue[run[r].pos + 1].id = run[r].job

\* the queue has gone from position 0 on to position 1
C10_Witness ==
    \E r1, r2 \in QueueRuns :
        /\ run[r1].epoch = run[r2].epoch
        /\ run[r1].pos = 0 /\ run[r1].pc = "done"
        /\ run[r2].pos = 1 /\ run[r2].pc \in Active

\* a step of a worker thread: the record of a thread that is running changes
WorkerStep == \E r \in Runs : run[r].pc \in Active /\ run'[r] # run[r]

\* the run of a queue item is in progress
QueueRunActive == \E r \in QueueRuns : run[r].pc \in Active

\* the Remove Selected button would remove row index; Clear Queue would clear
CanRemove(index) == btn["remove_from_queue_btn"] = "normal" /\ index < Len(text_queue)
CanClear == btn["clear_queue_btn"] = "normal" /\ Len(text_queue) # 0

\* C11: Process Queue takes effect only when the queue is not Processing and
\* not empty, and then the queue is Processing with current index 0.
C11_StartOnlyWhenIdle ==
    [][nstarts' # nstarts
       => /\ ~processing_queue
          /\ Len(text_queue) > 0
          /\ processing_queue'
          /\ current_queue_index' = 0]_vars

\* C12 as stated: while the run of a queue item is in progress the item at the
\* current index, and only that item, is protected from removal: it cannot be
\* removed or cleared, and every other item can be removed.
C12_OnlyCurrentItemLocked ==
    QueueRunActive =>
        /\ ~CanClear
        /\ \A index \in 0..(Len(text_queue) - 1) :
              CanRemove(index) <=> index # current_queue_index

\* C12 amended: while the run of a queue item is in progress no item at all can
\* be removed, the current one or another (Remove Selected and Clear Queue are
\* disabled), and the queue never shrinks in such a state; when the buttons are
\* enabled a removal takes effect in the very step of the click.
C12_NoRemovalDuringQueueRun ==
    /\ [](QueueRunActive =>
             /\ ~CanClear
             /\ \A index \in 0..(Len(text_queue) - 1) : ~CanRemove(index))
    /\ [][Len(text_queue') < Len(text_queue)
          => /\ ~QueueRunActive
             /\ \/ text_queue' = <<>>
                \/ \E index \in 0..(Len(text_queue) - 1) :
                      text_queue' = Pop(text_queue, index)]_vars

\* a queue item is being run with another item behind it, and nothing can be removed
C12_Witness ==
    /\ QueueRunActive
    /\ Len(text_queue) >= 2
    /\ current_queue_index = 0
    /\ ~CanRemove(1)

\* the queue grows only by one item put behind the others
AppendsOnly ==
    [][text_queue' # text_queue /\ Len(text_queue') >= Len(text_queue)
       => /\ Len(text_queue') = Len(text_queue) + 1
          /\ SubSeq(text_queue', 1, Len(text_queue)) = text_queue]_vars

\* C13 as stated: Add to Queue is possible in every state, and it appends the
\* new item at the end leaving the other items and their order unchanged.
C13_EnqueueAlwaysLegal ==
    /\ [](btn["add_to_queue_btn"] = "normal")
    /\ AppendsOnly

\* C13 amended: Add to Queue is possible whenever the queue is Idle and never
\* while the run of a queue item is in progress; whenever it takes effect it
\* appends the new item at the end leaving the other items and their order
\* unchanged.
C13_EnqueueWhenIdle ==
    /\ [](~processing_queue => btn["add_to_queue_btn"] = "normal")
    /\ [](QueueRunActive => btn["add_to_queue_btn"] = "disabled")
    /\ AppendsOnly

\* an item was appended behind another one, and a later queue run blocks Add
C13_Witness ==
    /\ Len(text_queue) >= 2
    /\ text_queue[1].id < text_queue[2].id
    /\ QueueRunActive
    /\ btn["add_to_queue_btn"] = "disabled"

\* C14: the step in which the run of a queue item ends as cancelled leaves the
\* items of the queue as they are and leaves the queue Idle (processing flag
\* cleared), and no other run is started for that item by it.
C14_CancelReturnsToIdle ==
    [][\A r \in QueueRuns :
          (run[r].pc \in Working /\ run'[r].pc = "cancelled")
          => /\ text_queue' = text_queue
             /\ ~processing_queue'
             /\ \A r2 \in Runs \ {r} : run'[r2] = run[r2]]_vars

\* C16: a step of a worker thread changes no button, no dialog and no queue
\* state itself: what it wants changed it posts with ui.
C16_WorkerOnlyPosts ==
    [][WorkerStep => UNCHANGED <<btn, dialogs, generatedialog, text_queue,
                                 processing_queue, current_queue_index>>]_vars

\* C15: every value of a live setting that a run has used is the value the
\* setting had when the run was started, and all lines of the run were
\* synthesized with one and the same style.
C15_ParametersSnapshot ==
    \A r \in Runs :
        Started(r) =>
            /\ run[r].use.bias \subseteq {run[r].snap[1]}
            /\ \A k \in 1..Len(run[r].use.styles) :
                  /\ run[r].use.styles[k] = run[r].snap[2]
                  /\ run[r].use.styles[k] = run[r].use.styles[1]
            /\ run[r].use.format \subseteq {run[r].snap[3]}

\* the place of a status text in the order a run of n lines emits them
Rank(st, n) ==
    CASE st.phase = "Preparing Lines" -> 1
      [] st.phase = "Synthesizing Lines" -> 1 + st.line
      [] st.phase = "Rasterizing Lines" -> n + 2
      [] st.phase = "Rasterizing" -> n + 2 + st.line
      [] st.phase = "Combining Lines" -> 2 * n + 3
      [] st.phase = "Finished with warnings" -> 2 * n + 4
      [] OTHER -> 0

\* C17: whenever a label shows another status of a run, that status was
\* emitted by the run later than the one shown before: never line i after line
\* i+1, never a 'Synthesizing Lines' status after a 'Rasterizing' one.
C17_StatusInOrder ==
    [][\A r \in Runs :
          shown'[r] # shown[r]
          => Rank(shown'[r], run[r].n) > Rank(shown[r], run[r].n)]_vars

\* of a run of two lines the status of the second rasterized line is shown
C17_Witness ==
    \E r \in Runs : /\ run[r].n >= 2
                    /\ shown[r] = Status("Rasterizing", 2)

\* a text the validation is meant to let through
ValidText(t) == ~IsBlank(t) /\ ~HasInvalid(t)

\* C18: the text of every run that was started, and of every queue item, is
\* not blank and has valid characters only.
C18_OnlyValidTextRuns ==
    /\ \A r \in Runs : Started(r) => ValidText(run[r].txt)
    /\ \A k \in 1..Len(text_queue) : ValidText(text_queue[k].text)

\* C19: the lines a run has split its text into are the lines of the text it
\* was started for.
C19_TextImmutable ==
    \A r \in Runs :
        run[r].lines # <<>> => run[r].lines = synthesized_lines(run[r].txt)

EpochOf(r) == {r2 \in QueueRuns : run[r2].epoch = run[r].epoch}

\* the step in which the index reaches the queue length: the run of the last
\* item finishes
QueueEndsWith(r) == run[r].isq /\ run[r].pc = "finish" /\ run'[r].pc = "done"

\* C21: the step in which the index reaches the queue length leaves the queue
\* Idle and posts a completion report, and the report is the all-clean one
\* exactly when no run of that start of the queue recorded a warning.
C21_QueueCompletionReport ==
    [][\A r \in Runs :
          QueueEndsWith(r)
          => /\ ~processing_queue'
             /\ \E k \in 1..Len(afterq') :
                   /\ afterq'[k].fn = "messagebox.showinfo"
                   /\ afterq'[k].run = r
                   /\ afterq'[k].st = QueueComplete
                         <=> \A r2 \in EpochOf(r) : run[r2].log = <<>>]_vars

\* C22: the "View log" button is shown only on the dialog of a run that has
\* recorded warnings, and whenever a log is opened from the dialog of a run it
\* shows every warning of that run, also after later runs were started.
C22_LogOfItsRun ==
    /\ \A d \in log_btn : run[d].log # <<>>
    /\ \A v \in logview : v.text = run[v.dialog].log

\* C23: every preview is shown by the callback of a single run or of the run
\* of the last item of the queue, and it shows the file of that very run; a
\* single run that wrote its file and whose callbacks have all run was previewed.
C23_PreviewLastItemOnly ==
    /\ \A p \in previewed :
          /\ p.file = p.by
          /\ run[p.by].isq => run[p.by].pos + 1 = run[p.by].len
    /\ \A r \in Runs :
          (~run[r].isq /\ run[r].pc = "done" /\ r \in outputs /\ afterq = <<>>)
          => [by |-> r, file |-> r] \in previewed

\* the obstacle of the page: the bounds of the placed image, if it is registered
Obstacle == compose.image_bounds
Registered == compose.image_bounds # None /\ compose.use_image_placement
obstacleLeft == Obstacle[1]
obstacleTop == Obstacle[2]
obstacleRight == Obstacle[3]
obstacleBottom == Obstacle[4]

\* the default slot of the pasted line k collides with the obstacle: the
\* vertical extents [y, y+height] and [top, bottom] have a point in common and
\* the horizontal extents have more than an edge in common
SlotCollides(k) ==
    LET l == pasted[k] IN
    /\ Registered
    /\ obstacleTop <= l.y + l.height /\ l.y <= obstacleBottom
    /\ l.slot < halves(obstacleRight)
    /\ l.slot + halves(l.width) > halves(obstacleLeft)

\* C24: a pasted line whose default slot collides with the obstacle is at
\* x = obstacleRight + 20 with wrap style Right and at x + width =
\* obstacleLeft - 20 with wrap style Left; for the obstacle x in [400,700], y in
\* [200,500] and a line with default x=400, y=300, width=200 this is x >= 720
\* for Right and x + width <= 380 for Left.
C24_WrapLeftRight ==
    \A k \in 1..Len(pasted) :
        LET l == pasted[k] IN
        SlotCollides(k) =>
            /\ l.wrap_style = "right" => l.x = obstacleRight + 20
            /\ l.wrap_style = "left" => l.x + l.width = obstacleLeft - 20
            /\ (Obstacle = <<400, 200, 700, 500>> /\ l.slot = halves(400)
                   /\ l.y = 300 /\ l.width = 200)
               => /\ l.wrap_style = "right" => l.x >= 720
                  /\ l.wrap_style = "left" => l.x + l.width <= 380

\* the line of the example is pasted right of the obstacle of the example
C24_Witness ==
    \E k \in 1..Len(pasted) :
        /\ SlotCollides(k)
        /\ Obstacle = <<400, 200, 700, 500>>
        /\ pasted[k].slot = halves(400) /\ pasted[k].y = 300 /\ pasted[k].width = 200
        /\ pasted[k].wrap_style = "right"
        /\ pasted[k].x = 720

\* C25: the canvas of a page of N lines is 400 + lineSpacing x N high, which
\* is at least the height for any smaller number of lines; the k-th pasted
\* line is line k of the page and is at y = lineSpacing x k, strictly above the
\* line pasted after it, for every value of the spacing scale.
C25_HeightAndOrder ==
    compose.pc # "idle" =>
        /\ compose.line_spacing \in 20..140
        /\ canvas.height = 400 + compose.line_spacing * compose.n
        /\ \A m \in 0..compose.n : 400 + compose.line_spacing * m <= canvas.height
        /\ Len(pasted) <= compose.n
        /\ \A k \in 1..Len(pasted) : pasted[k].y = compose.line_spacing * k
        /\ \A k \in 1..(Len(pasted) - 1) : pasted[k].y < pasted[k + 1].y

\* a page of three lines is composed
C25_Witness ==
    /\ compose.pc = "done"
    /\ Len(pasted) = 3
    /\ pasted[1].y < pasted[2].y /\ pasted[2].y < pasted[3].y

\* the runs whose text was one line longer than the maximal width, which was
\* split: the line, and the sub-lines made of it
WrappedRuns ==
    {r \in Runs : /\ run[r].lines # <<>>
                  /\ Len(splitlines(run[r].txt)) = 1
                  /\ Len(splitlines(run[r].txt)[1]) > run[r].max_width}
LineOf(r) == splitlines(run[r].txt)[1]

\* the words of a line: its longest pieces without a space
RECURSIVE Words(_)
Words(t) ==
    IF t = <<>> THEN <<>>
    ELSE IF t[1] = " " THEN Words(Tail(t))
    ELSE LET sp == {k \in 1..Len(t) : t[k] = " "}
             e == IF sp = {} THEN Len(t) + 1 ELSE CHOOSE x \in sp : \A y \in sp : x <= y
         IN <<SubSeq(t, 1, e - 1)>> \o Words(SubSeq(t, e, Len(t)))

\* the words of all sub-lines, in their order
WordsOfAll(ls) == Join([k \in 1..Len(ls) |-> Words(ls[k])])

\* a line without its spaces
NoSpaces(t) == SelectSeq(t, LAMBDA c : c # " ")

\* the place in line t of its o-th character that is no space, and the length
\* of the word around place i
PlaceOf(t, o) ==
    CHOOSE i \in 1..Len(t) :
        t[i] # " " /\ Cardinality({j \in 1..i : t[j] # " "}) = o
WordLenAt(t, i) ==
    Cardinality({j \in 1..Len(t) :
                    \A m \in (IF j < i THEN j ELSE i)..(IF j < i THEN i ELSE j) : t[m] # " "})

Phase(pc) ==
    CASE pc \in {"init", "prepare"} -> 1
      [] pc = "synth" -> 2
      [] pc = "raster" -> 3
      [] pc = "compose" -> 4
      [] pc \in {"encode", "finish"} -> 5
      [] pc \in {"next", "done"} -> 6
      [] OTHER -> 0

\* C27: a step of a run stays in its phase, going on to the next line, or
\* enters the next phase, or ends the run as Cancelled (or the thread dies);
\* rasterizing starts only when the last line was synthesized, composing only
\* when the last line was rasterized, encoding only when the last line was
\* pasted; a run that is Finished or Cancelled changes no more.
C27_PhasesInOrder ==
    [][\A r \in Runs :
          /\ run[r].pc \in {"done", "cancelled", "crashed"} => run'[r] = run[r]
          /\ (run[r].pc \in Active /\ run'[r] # run[r]) =>
                \/ run'[r].pc \in {"cancelled", "crashed"}
                \/ /\ run[r].pc \in {"synth", "raster", "compose"}
                   /\ run'[r].pc = run[r].pc
                   /\ run'[r].i = run[r].i + 1
                   /\ run'[r].i < run[r].n
                \/ <<run[r].pc, run'[r].pc>> \in
                      {<<"init", "prepare">>, <<"encode", "finish">>, <<"next", "done">>}
                \/ /\ Phase(run'[r].pc) = Phase(run[r].pc) + 1
                   /\ run'[r].pc # "finish"
                   /\ run[r].pc \in {"synth", "raster", "compose"}
                         => run[r].i + 1 = run[r].n
                   /\ run'[r].i = 0]_vars

\* a run of two lines went through all phases and is Finished, another one
\* ended Cancelled
C27_Witness ==
    \E r1, r2 \in Runs :
        /\ run[r1].n = 2 /\ run[r1].pc = "done" /\ r1 \in outputs
        /\ run[r2].pc = "cancelled"

\* the two places a line is moved to: left of the obstacle, right of it
LeftOfObstacle(k) == obstacleLeft - pasted[k].width - 20
RightOfObstacle == obstacleRight + 20

\* C28: a pasted line was moved beside the obstacle exactly when an obstacle is
\* registered and the vertical extent and the default horizontal extent of
\* the line overlap those of the obstacle; every other line is at its default
\* slot; so the place of a line is given by the line and the settings alone,
\* not by the places of the other lines.
C28_AvoidanceExactlyOnCollision ==
    \A k \in 1..Len(pasted) :
        /\ pasted[k].slot = default_x_pos(pasted[k].orientation, pasted[k].width)
        /\ IF SlotCollides(k)
           THEN pasted[k].x \in {LeftOfObstacle(k), RightOfObstacle}
           ELSE pasted[k].x = int(pasted[k].slot)

\* on one page a line was moved beside the obstacle and another line, which
\* does not reach the obstacle, was left at its default slot
C28_Witness ==
    \E k1, k2 \in 1..Len(pasted) :
        /\ SlotCollides(k1)
        /\ pasted[k1].x # int(pasted[k1].slot)
        /\ ~SlotCollides(k2)
        /\ pasted[k2].x = int(pasted[k2].slot)

\* C29: with wrap style Both a line whose default slot collides is put left
\* of the obstacle when the space left of the obstacle is larger than the space
\* between the obstacle's right edge and the right edge of the page, which is
\* 2400 wide, and right of the obstacle otherwise.
C29_BothToTheWiderSide ==
    \A k \in 1..Len(pasted) :
        (SlotCollides(k) /\ pasted[k].wrap_style = "both") =>
            /\ canvas.width = 2400
            /\ pasted[k].x = IF obstacleLeft > canvas.width - obstacleRight
                             THEN LeftOfObstacle(k)
                             ELSE RightOfObstacle

\* C30: the default slot of a line of width w on the page, which is 2400
\* wide, is at 400 for the alignment Left, at 2400 - w for Right and at
\* 1200 - w/2 for Middle (in halves: 4800 - 2w and 2400 - w).
C30_DefaultSlot ==
    \A k \in 1..Len(pasted) :
        LET w == pasted[k].width IN
        /\ canvas.width = 2400
        /\ pasted[k].orientation = "Left" => pasted[k].slot = halves(400)
        /\ pasted[k].orientation = "Right" => pasted[k].slot = halves(canvas.width - w)
        /\ pasted[k].orientation = "Middle" => pasted[k].slot = canvas.width - w

\* the lines of run r that were handed to hand.write so far: one call per
\* iteration of the synthesis loop, in the order of the lines
Synthesized(r) == 1..Len(run[r].use.styles)

\* line k of run r stands for an empty line of the text
Placeholder(r, k) == run[r].lines[k] = <<" ">>

\* C31: an empty line of the text is never handed to hand.write and never
\* gets a synthesis warning: it only gets the blank raster.
C31_EmptyLineNotSynthesized ==
    \A r \in Runs : \A k \in 1..run[r].n :
        Placeholder(r, k) =>
            /\ k \notin Synthesized(r)
            /\ Warning("Synthesize line", k) \notin {run[r].log[j] : j \in 1..Len(run[r].log)}

\* the entries of a list
Entries(e) == {e[j] : j \in 1..Len(e)}

\* the page is composed with image placement enabled and without an image
\* that could be used
PlacementFailed ==
    compose.pc # "idle" /\ compose.use_image_placement /\ compose.image_bounds = None

\* C32: when image placement is enabled and the image cannot be used (no
\* file, or it cannot be loaded or pasted), a warning is recorded, no obstacle
\* is registered and every line is pasted at its default slot.
C32_PlacementFailureWarned ==
    PlacementFailed =>
        /\ Warning("Image placement", 0) \in Entries(_errors)
        /\ ~Registered
        /\ \A k \in 1..Len(pasted) : pasted[k].x = int(pasted[k].slot)

\* the runs that have put their page on its background
Encoded == {r \in Runs : run[r].final_output # <<>>}

\* what run r read of the background settings: type, colour, image path, and
\* whether the image could be loaded
BackgroundOf(r) == CHOOSE b \in run[r].use.background : TRUE

\* C33: with the background type Image and an image that cannot be loaded
\* (no path, or the loading fails) the page is flattened on white and a
\* warning is recorded; with Transparent the page is not flattened; with
\* White and Custom Color it is flattened on a solid fill, white or the colour.
C33_BackgroundFallback ==
    \A r \in Encoded :
        LET bg_type == BackgroundOf(r)[1]
            bg_color == BackgroundOf(r)[2]
            unusable == BackgroundOf(r)[3] = <<>> \/ ~BackgroundOf(r)[4]
            out == run[r].final_output
        IN
        /\ bg_type = "transparent" => ~out.flattened
        /\ bg_type = "white" => out.flattened /\ out.fill = "white"
        /\ bg_type = "color" => out.flattened /\ out.fill = bg_color
        /\ (bg_type = "image" /\ unusable) =>
              /\ out.flattened
              /\ out.fill = "white"
              /\ Warning("Background image", 0) \in Entries(run[r].log)

\* the progress steps that wait in the callback queue
PostedSteps == {k \in 1..Len(afterq) : afterq[k].fn = "step_bar_after"}

\* the bar of dialog d has taken the steps of a whole run
BarFull(d) == progress[d] = hand_step + prepare_step + 80 * Unit + last_step

\* C34: every progress step that is posted is positive, and no bar of a
\* generation dialog ever wraps around or decreases.
C34_BarNeverWraps ==
    [][/\ \A k \in PostedSteps : afterq[k].st.line > 0
       /\ \A d \in Runs : progress'[d] >= progress[d]]_vars

\* a bar that has taken all the steps of a run of two lines
FullBarReached ==
    \E d \in Runs : run[d].pc = "done" /\ run[d].n = 2 /\ BarFull(d)

\* C35: the temporary directory of a run is touched by that run only: a step
\* that creates it, writes a file into it or removes it is a step of the run
\* it was made for.
C35_TempdirOwnedByItsRun ==
    [][\A d \in Runs : fs'[d] # fs[d] => run'[d] # run[d]]_vars

\* the rectangle of the pasted line k and the rectangle of the obstacle have
\* an inner point in common
Intersects(k) ==
    LET l == pasted[k] IN
    /\ l.x < obstacleRight /\ l.x + l.width > obstacleLeft
    /\ l.y < obstacleBottom /\ l.y + l.height > obstacleTop

\* C36: with an obstacle registered, the rectangle of no pasted line
\* intersects the rectangle of the obstacle in its interior.
C36_NoLineOnObstacle ==
    \A k \in 1..Len(pasted) : Registered => ~Intersects(k)

\* a centred line at the height of the obstacle was moved to the left of it
C36_Witness ==
    \E k \in 1..Len(pasted) :
        /\ SlotCollides(k)
        /\ pasted[k].orientation = "Middle"
        /\ pasted[k].y < obstacleBottom /\ pasted[k].y + pasted[k].height > obstacleTop
        /\ pasted[k].x + pasted[k].width <= obstacleLeft

\* C37: every line is pasted inside the page horizontally, 0 <= x and
\* x + width <= 2400, also after it was moved beside the obstacle, for every
\* line that is at most as wide as the raster of a line (2000).
C37_LineInsidePage ==
    \A k \in 1..Len(pasted) :
        pasted[k].width <= 2000 =>
            /\ canvas.width = 2400
            /\ 0 <= pasted[k].x
            /\ pasted[k].x + pasted[k].width <= canvas.width

\* run r reached the end of generate_writing, was not cancelled and recorded
\* no warning
CleanRuns == {r \in Runs : run[r].pc = "done" /\ run[r].log = <<>>}

\* C38: every run that reaches its end without a cancel and without a
\* recorded warning has written its output file, whichever export format the
\* window holds (png, jpg, pdf) and whether reportlab is there or not.
C38_CleanRunHasFile ==
    \A r \in CleanRuns :
        /\ run[r].use.format \subseteq ExportFormats
        /\ r \in outputs

\* a run without warnings that has written its pdf file
C38_Witness ==
    \E r \in CleanRuns : run[r].use.format = {"pdf"} /\ r \in outputs

\* the controller takes the step in which the live preview calls
\* self.hand.write
PreviewWrites == _mini_prev_after = "pending" /\ _mini_prev_after' = "fired"

\* the worker threads that are inside self.hand.write
Writing == {r \in Runs : run[r].pc = "synth"}

\* C39: the synthesizer is never used by two threads at once: the live
\* preview of the controller does not call self.hand.write while a worker
\* thread is synthesizing a line, and no two workers synthesize at a time.
C39_HandNotShared ==
    [][/\ PreviewWrites => Writing = {}
       /\ Cardinality(Writing) <= 1]_vars

\* the queue holds, at the positions the runs of r's start of the queue were
\* made for, the items these runs were made for, and nothing else
SameItems(q, r) ==
    /\ Len(q) = run[r].len
    /\ {run[r2].pos : r2 \in EpochOf(r)} = 0..(Len(q) - 1)
    /\ \A r2 \in EpochOf(r) : q[run[r2].pos + 1].id = run[r2].job

\* C40: processing the queue does not change the queue: no step taken while
\* the run of a queue item is in progress, nor the step that starts or ends
\* such a run, changes the items, and when the run of the last item finishes
\* the queue holds the items that were run, in their order, so that the next
\* Process Queue runs all of them again.
C40_QueueKeptByProcessing ==
    [][/\ (QueueRunActive \/ QueueRunActive') => text_queue' = text_queue
       /\ \A r \in Runs : QueueEndsWith(r) => SameItems(text_queue', r)]_vars

\* the queue was completed and started again: the item that was run is run again
C40_Witness ==
    \E r1, r2 \in QueueRuns :
        /\ run[r1].epoch = 1 /\ run[r1].pc = "done"
        /\ run[r2].epoch = 2 /\ run[r2].pc \in Active
        /\ run[r2].pos = run[r1].pos /\ run[r2].job = run[r1].job

====
